---- MODULE Spec2Model ----
(***************************************************************************)
(* The `rethinkdb.db_config` artificial table backend                      *)
(* (src/src/clustering/administration/tables/db_config.cc) over the        *)
(* databases semilattice metadata.                                         *)
(*                                                                         *)
(* One backend is modelled together with the coroutines that run its       *)
(* write_row on the home thread.  Coroutines are scheduled cooperatively:  *)
(* a write_row yields when it switches to the home thread (on_thread_t)    *)
(* and while it waits in db_drop_uuid, and nowhere else, so everything     *)
(* between two yields is one action.  Metadata arriving from other nodes   *)
(* of the cluster is joined into the shared view on the same thread.       *)
(***************************************************************************)
EXTENDS Integers, FiniteSets, Sequences, TLC

\* Largest version a versioned_t field takes in the model.
MaxVersion == 2

(***************************************************************************)
(* Values.  UUIDs are numbers inside the program and strings in a datum;   *)
(* names are name_string_t values inside and strings in a datum.           *)
(***************************************************************************)
\* The two database UUIDs of the model; nil_uuid() is none of them.
Uuid == {1, 2}
nil_uuid == 0

\* name_string_t values in their `<` order: NameStr[n] is the text of name n.
NameStr == <<"a", "b", "rethinkdb">>
Name == 1..Len(NameStr)

\* name_string_t::guarantee_valid("rethinkdb")
guarantee_valid_rethinkdb == CHOOSE n \in Name : NameStr[n] = "rethinkdb"

\* uuid_to_str, the text of a UUID in a datum
UuidStr == <<"u1", "u2">>

(***************************************************************************)
(* databases_semilattice_metadata_t: uuid -> deletable_t<{ name :          *)
(* versioned_t<name_string_t> }>.  An entry is absent from the std::map,   *)
(* deleted (a tombstone) or present with a versioned name.                 *)
(***************************************************************************)
Absent == [st |-> "absent", name |-> 0, ver |-> 0]
Deleted == [st |-> "deleted", name |-> 0, ver |-> 0]
Present(n, v) == [st |-> "present", name |-> n, ver |-> v]

Entry == {Absent, Deleted} \cup
         {Present(n, v) : n \in Name \ {guarantee_valid_rethinkdb}, v \in 1..MaxVersion}

\* Every value of the metadata that a node of the cluster can hold.
Metadata == [Uuid -> Entry]

EmptyMetadata == [u \in Uuid |-> Absent]

\* The metadata in which one database has an entry.
RemoteMetadata == {[EmptyMetadata EXCEPT ![u] = e] : u \in Uuid, e \in Entry \ {Absent}}

\* md.databases.find(id): the entry, or Absent for a key that is not in the map
Find(md, id) == IF id \in DOMAIN md THEN md[id] ELSE Absent

(***************************************************************************)
(* semilattice_join.  The joins live in the semilattice headers of the     *)
(* repository; they follow the data model of the design: a versioned field *)
(* keeps the operand of the greater version and breaks a tie of versions   *)
(* by the greater value, a tombstone absorbs, the map joins key by key     *)
(* and a key missing on one side yields the other side.                    *)
(***************************************************************************)
\* A join of versioned fields that keeps its first operand when the versions tie.
JoinVersionedKeepFirst(a, b) == IF b.ver > a.ver THEN b ELSE a

\* semilattice_join(versioned_t *a, const versioned_t &b), both present
JoinVersioned(a, b) ==
    IF a.ver > b.ver THEN a
    ELSE IF b.ver > a.ver THEN b
    ELSE IF a.name >= b.name THEN a ELSE b

\* semilattice_join(deletable_t *a, const deletable_t &b), lifted to missing keys
JoinEntry(a, b) ==
    IF a.st = "absent" THEN b
    ELSE IF b.st = "absent" THEN a
    ELSE IF a.st = "deleted" \/ b.st = "deleted" THEN Deleted
    ELSE JoinVersioned(a, b)

\* semilattice_join(databases_semilattice_metadata_t *a, const ... &b)
Join(a, b) == [u \in Uuid |-> JoinEntry(a[u], b[u])]

\* deletable_t::is_deleted() of an entry that is in the map
is_deleted(e) == e.st = "deleted"

\* search_metadata_by_uuid: the key is in the map and its entry is not deleted
search_metadata_by_uuid(md, id) == Find(md, id).st = "present"

\* versioned_t<name_string_t>(value): the first version of a field
NewVersioned(n) == Present(n, 1)

\* versioned_t::set(value): the same field one version later
SetName(e, n) == Present(n, e.ver + 1)

(***************************************************************************)
(* Datums.  A primary key is a string datum; a row is an object datum, a   *)
(* function from its keys to string datums; a datum_t without a value is   *)
(* the empty set and a datum_t holding row r is {r}.                       *)
(***************************************************************************)
\* A string that is the text of no UUID, and one that is no valid name.
BadUuidStr == "bad"
BadNameStr == ""

PrimaryKey == {UuidStr[u] : u \in Uuid} \cup {BadUuidStr}

\* convert_uuid_to_datum
convert_uuid_to_datum(id) == UuidStr[id]

\* convert_uuid_from_datum: [ok, id]
convert_uuid_from_datum(d) ==
    IF \E u \in Uuid : UuidStr[u] = d
    THEN [ok |-> TRUE, id |-> CHOOSE u \in Uuid : UuidStr[u] = d]
    ELSE [ok |-> FALSE, id |-> nil_uuid]

\* convert_name_to_datum
convert_name_to_datum(n) == NameStr[n]

\* convert_name_from_datum: [ok, name]
convert_name_from_datum(d) ==
    IF \E n \in Name : NameStr[n] = d
    THEN [ok |-> TRUE, name |-> CHOOSE n \in Name : NameStr[n] = d]
    ELSE [ok |-> FALSE, name |-> 0]

\* convert_db_config_and_name_to_datum(db_name, id)
convert_db_config_and_name_to_datum(db_name, id) ==
    [name |-> convert_name_to_datum(db_name), id |-> convert_uuid_to_datum(id)]

\* A convert_db_config_and_name_from_datum without check_no_extra_keys.
ConvertIgnoresExtraKeys(datum) ==
    LET bad(m) == [ok |-> FALSE, db_name |-> 0, id |-> nil_uuid, msg |-> m]
    IN  IF "name" \notin DOMAIN datum THEN bad("no name")
        ELSE IF ~convert_name_from_datum(datum["name"]).ok THEN bad("in name")
        ELSE IF "id" \notin DOMAIN datum THEN bad("no id")
        ELSE IF ~convert_uuid_from_datum(datum["id"]).ok THEN bad("in id")
        ELSE [ok |-> TRUE,
              db_name |-> convert_name_from_datum(datum["name"]).name,
              id |-> convert_uuid_from_datum(datum["id"]).id,
              msg |-> ""]

\* convert_db_config_and_name_from_datum(datum): [ok, db_name, id, msg]
convert_db_config_and_name_from_datum(datum) ==
    LET bad(m) == [ok |-> FALSE, db_name |-> 0, id |-> nil_uuid, msg |-> m]
    IN  IF "name" \notin DOMAIN datum THEN bad("no name")
        ELSE IF ~convert_name_from_datum(datum["name"]).ok THEN bad("in name")
        ELSE IF "id" \notin DOMAIN datum THEN bad("no id")
        ELSE IF ~convert_uuid_from_datum(datum["id"]).ok THEN bad("in id")
        ELSE IF DOMAIN datum # {"name", "id"} THEN bad("extra keys")
        ELSE [ok |-> TRUE,
              db_name |-> convert_name_from_datum(datum["name"]).name,
              id |-> convert_uuid_from_datum(datum["id"]).id,
              msg |-> ""]

\* A datum_t without a value (the new value of a delete).
NoDatum == {}

\* Another UUID than the one primary_key names.
OtherUuid(primary_key) ==
    CHOOSE u \in Uuid : UuidStr[u] # primary_key

\* What artificial_table_t hands to write_row with primary_key: no value; a row of
\* that key under any name; such a row with a key too many; and, breaking what the
\* comment at lines 23-26 expects of artificial_table_t, a row of another key.
NewValueFor(primary_key) ==
    {NoDatum}
    \cup {{convert_db_config_and_name_to_datum(n, u)} :
             n \in Name, u \in {v \in Uuid : UuidStr[v] = primary_key}}
    \cup {{[id |-> primary_key, name |-> NameStr[1], extra |-> "x"]} :
             u \in {v \in Uuid : UuidStr[v] = primary_key}}
    \cup {{convert_db_config_and_name_to_datum(1, OtherUuid(primary_key))}}

(***************************************************************************)
(* write_row, from the snapshot it takes on the home thread to its return  *)
(* or to its call of db_drop_uuid.                                         *)
(***************************************************************************)
\* What a write_row has returned: ret is "true" or "false", "fatal" for a failed
\* guarantee, "interrupted" for an interrupted_exc_t that leaves write_row;
\* err is what error_out holds.
NoError == "none"
Returned(ret, err) == [ret |-> ret, err |-> err]

\* A write_row that makes the name checks for every write of a row.
AlwaysNameChecks(existed_before, new_db_name, old_db_name) == TRUE

\* line 175: the name checks apply to a creation and to a change of name
NameChecksApply(existed_before, new_db_name, old_db_name) ==
    ~existed_before \/ new_db_name # old_db_name

\* A write_row that reserves no name.
NoReservedName(new_db_name) == FALSE

\* line 177: the reserved database name
IsReservedName(new_db_name) == new_db_name = guarantee_valid_rethinkdb

\* A write_row that does not look for the name among the databases.
NoNameCollision(md, new_db_name) == FALSE

\* lines 192-194: a database that is not deleted carries the name
NameCollision(md, new_db_name) ==
    \E u \in Uuid : md[u].st # "absent" /\ ~is_deleted(md[u])
                    /\ md[u].name = new_db_name

\* A write_row that lets any write create a database.
CreationAlwaysAllowed(pkey_was_autogenerated) == TRUE

\* line 158: a creation must come with an auto-generated primary key
CreationAllowed(pkey_was_autogenerated) == pkey_was_autogenerated

\* A write_row that takes no UUID for one that was used before.
UuidNeverUsed(md, database_id) == FALSE

\* line 167: md.databases.count(database_id) is not 0
UuidWasUsed(md, database_id) == Find(md, database_id).st # "absent"

\* A write_row that builds the entry anew for an update as for a creation.
UpdateMdAsNew(md, existed_before, database_id, new_db_name) ==
    [md EXCEPT ![database_id] = NewVersioned(new_db_name)]

\* lines 221-228: `md` after the update or the creation
UpdateMd(md, existed_before, database_id, new_db_name) ==
    IF existed_before
    THEN [md EXCEPT ![database_id] = SetName(md[database_id], new_db_name)]
    ELSE [md EXCEPT ![database_id] = NewVersioned(new_db_name)]

\* A write_row that marks the database deleted in its snapshot before it knows
\* what db_drop_uuid returns.
DeleteMdMarked(md, database_id) == [md EXCEPT ![database_id] = Deleted]

\* lines 229-244: `md` when write_row calls db_drop_uuid; the delete branch does
\* not touch the snapshot
DeleteMd(md, database_id) == md

\* A write_row that calls db_drop_uuid for every delete.
DeleteAlwaysCallsDrop(existed_before) == TRUE

\* line 230: a delete calls db_drop_uuid when the database existed
DeleteCallsDrop(existed_before) == existed_before

\* lines 126-244.  The outcome is [next, md, database_id, existed_before,
\* old_db_name, res] with the locals of those names (old_db_name is 0 until
\* line 172 sets it): next = "join" when control reaches line 246 with `md`,
\* "drop" when it reaches the call of db_drop_uuid at line 236, "return" when
\* it has left write_row with res.
WriteRowBody(view, primary_key, pkey_was_autogenerated, new_value) ==
    LET md == view
        conv_pk == convert_uuid_from_datum(primary_key)
        database_id == IF conv_pk.ok THEN conv_pk.id ELSE nil_uuid
        existed_before == search_metadata_by_uuid(md, database_id)
        out(next, m, old_db_name, res) ==
            [next |-> next, md |-> m, database_id |-> database_id,
             existed_before |-> existed_before, old_db_name |-> old_db_name,
             res |-> res]
        fatal == out("return", md, 0, Returned("fatal", NoError))
    IN  IF new_value # NoDatum
        THEN LET row == CHOOSE r \in new_value : TRUE
                 conv == convert_db_config_and_name_from_datum(row)
                 new_db_name == conv.db_name
                 old_db_name == IF existed_before THEN md[database_id].name ELSE 0
                 fail(err) == out("return", md, old_db_name, Returned("false", err))
             IN  IF ~conv.ok
                 THEN out("return", md, 0, Returned("false", "wrong format"))
                 ELSE IF conv.id # database_id THEN fatal
                 ELSE IF existed_before /\ pkey_was_autogenerated THEN fatal
                 ELSE IF ~existed_before /\ ~CreationAllowed(pkey_was_autogenerated)
                      THEN fail("must use an auto-generated primary key")
                 ELSE IF ~existed_before /\ UuidWasUsed(md, database_id)
                      THEN fatal
                 ELSE IF NameChecksApply(existed_before, new_db_name, old_db_name)
                         /\ IsReservedName(new_db_name)
                      THEN IF ~existed_before
                           THEN fail("create: rethinkdb already exists")
                           ELSE fail("rename: rethinkdb already exists")
                 ELSE IF NameChecksApply(existed_before, new_db_name, old_db_name)
                         /\ NameCollision(md, new_db_name)
                      THEN IF ~existed_before
                           THEN fail("create: name already exists")
                           ELSE fail("rename: name already exists")
                 ELSE out("join",
                          UpdateMd(md, existed_before, database_id, new_db_name),
                          old_db_name, Returned("true", NoError))
        ELSE IF DeleteCallsDrop(existed_before)
             THEN IF pkey_was_autogenerated THEN fatal
                  ELSE out("drop", DeleteMd(md, database_id), 0,
                           Returned("true", NoError))
             ELSE out("join", md, 0, Returned("true", NoError))

\* A write_row that stores its snapshot over the view instead of joining it.
OverwriteView(view, md) == md

\* line 246: database_sl_view->join(md)
JoinIntoView(view, md) == Join(view, md)

(***************************************************************************)
(* read_row and read_all_rows_as_vector: a switch to the home thread, then *)
(* a snapshot of the view and the rows of it, without a yield.             *)
(***************************************************************************)
\* A read_row that finds no row.
ReadRowFindsNothing(view, primary_key) == NoDatum

\* lines 100-115: row_out
read_row(view, primary_key) ==
    LET md == view
        conv_pk == convert_uuid_from_datum(primary_key)
        database_id == IF conv_pk.ok THEN conv_pk.id ELSE nil_uuid
    IN  IF search_metadata_by_uuid(md, database_id)
        THEN {convert_db_config_and_name_to_datum(md[database_id].name, database_id)}
        ELSE NoDatum

\* lines 82-90: the loop over the entries of md.databases whose keys are ids, in
\* the order of the keys; a deleted entry is skipped, any other pushes its row
RECURSIVE RowsOfEntries(_, _)
RowsOfEntries(md, ids) ==
    IF ids = {} THEN <<>>
    ELSE LET it == CHOOSE u \in ids : \A v \in ids : u <= v
             rest == RowsOfEntries(md, ids \ {it})
         IN  IF is_deleted(md[it]) THEN rest
             ELSE <<convert_db_config_and_name_to_datum(md[it].name, it)>> \o rest

\* A read_all_rows_as_vector that returns after the first row.
ReadFirstRowOnly(view) ==
    LET rows == RowsOfEntries(view, {u \in Uuid : view[u].st # "absent"})
    IN  IF rows = <<>> THEN rows ELSE <<rows[1]>>

\* lines 79-91: rows_out
read_all_rows_as_vector(view) ==
    LET md == view
    IN  RowsOfEntries(md, {u \in Uuid : md[u].st # "absent"})

(***************************************************************************)
(* db_drop_uuid of the cluster interface.  It drops what the database owns *)
(* and then the database: on success the database is marked deleted in the *)
(* shared metadata; when it fails or is interrupted the metadata is as it  *)
(* was.                                                                    *)
(***************************************************************************)
DbDropped(view, database_id) ==
    Join(view, [EmptyMetadata EXCEPT ![database_id] = Deleted])

(***************************************************************************)
(* State.                                                                  *)
(***************************************************************************)
\* The coroutines that can be inside write_row of the backend at once.
Call == {"c1", "c2"}

VARIABLES
    database_sl_view,   \* the metadata behind database_sl_view at this node
    calls,              \* per coroutine: where it is in write_row, its locals, and
                        \* (history) whether the view had moved on from its
                        \* snapshot when it came back from db_drop_uuid
    race,               \* history: the name two pending creations compete for, or 0
    peer_a, peer_b,     \* the metadata of two nodes that exchange their metadata
    reader,             \* the coroutine that reads: where it is in read_row or
                        \* read_all_rows_as_vector, and what the read gave it
    backend             \* the backend object: how far its destruction is, whether
                        \* `subs` holds its subscription, and (history) whether
                        \* notify_all has run since the destruction began

peers == <<peer_a, peer_b>>

vars == <<database_sl_view, calls, race, peer_a, peer_b, reader, backend>>

\* lines 57-64: the backend as its constructor leaves it; `subs` has subscribed
\* notify_all to database_sl_view
Constructed ==
    [pc |-> "alive", subs |-> TRUE, begun_destruction |-> FALSE,
     notified_in_teardown |-> FALSE]

\* line 61: a join into the view runs the callback of `subs`, notify_all, while
\* the subscription is held.
Notified(b) ==
    IF b.subs
    THEN [b EXCEPT !.notified_in_teardown = @ \/ b.begun_destruction]
    ELSE b

\* The reader is in neither read.
NoRead == [pc |-> "idle", op |-> "none", primary_key |-> BadUuidStr,
           row_out |-> NoDatum, rows_out |-> <<>>, ret |-> "none"]

\* The reader has called `op` and waits for the home thread (lines 78, 98).
Reading(op, primary_key) ==
    [NoRead EXCEPT !.pc = "switch", !.op = op, !.primary_key = primary_key]

Idle == [pc |-> "idle", primary_key |-> BadUuidStr, pkey_was_autogenerated |-> FALSE,
         new_value |-> NoDatum, md |-> EmptyMetadata, database_id |-> nil_uuid,
         existed_before |-> FALSE, old_db_name |-> 0, stale |-> FALSE,
         notified |-> FALSE, res |-> Returned("none", NoError)]

\* The coroutine has entered write_row and waits for the home thread (line 125).
Switching(primary_key, pkey_was_autogenerated, new_value) ==
    [Idle EXCEPT !.pc = "switch", !.primary_key = primary_key,
                 !.pkey_was_autogenerated = pkey_was_autogenerated,
                 !.new_value = new_value]

\* The coroutine waits in db_drop_uuid, holding its snapshot (line 236).
Dropping(call, md, database_id) ==
    [call EXCEPT !.pc = "drop", !.md = md, !.database_id = database_id,
                 !.existed_before = TRUE]

\* write_row has come back from db_drop_uuid while the view was no longer its
\* snapshot.
CameBack(call, view) == [call EXCEPT !.stale = (call.md # view)]

\* line 246: the join of write_row has run notify_all if backend b holds its
\* subscription.
Joined(call, b) == [call EXCEPT !.notified = b.subs]

\* write_row has returned res to the coroutine.
Done(call, database_id, existed_before, res) ==
    [call EXCEPT !.pc = "done", !.md = EmptyMetadata, !.database_id = database_id,
                 !.existed_before = existed_before, !.res = res]

\* Two pending write_row calls create databases of distinct unused UUIDs under one
\* name that is not reserved and that no database of the view carries.
IsCreationOf(call, n) ==
    /\ call.pc = "switch"
    /\ call.pkey_was_autogenerated
    /\ convert_uuid_from_datum(call.primary_key).ok
    /\ call.new_value =
         {convert_db_config_and_name_to_datum(
              n, convert_uuid_from_datum(call.primary_key).id)}

RaceFor(view, cs, n) ==
    /\ n # guarantee_valid_rethinkdb
    /\ \A u \in Uuid : view[u].st = "present" => view[u].name # n
    /\ \A c \in Call : /\ IsCreationOf(cs[c], n)
                       /\ Find(view, convert_uuid_from_datum(cs[c].primary_key).id)
                            = Absent
    /\ \A c, d \in Call : c # d => cs[c].primary_key # cs[d].primary_key

RaceOf(view, cs) ==
    IF \E n \in Name : RaceFor(view, cs, n)
    THEN CHOOSE n \in Name : RaceFor(view, cs, n)
    ELSE 0

Init ==
    /\ database_sl_view = EmptyMetadata
    /\ calls = [c \in Call |-> Idle]
    /\ race = 0
    /\ peer_a = EmptyMetadata
    /\ peer_b = EmptyMetadata
    /\ reader = NoRead
    /\ backend = Constructed

(***************************************************************************)
(* Actions.                                                                *)
(***************************************************************************)
\* lines 118-125: a coroutine calls write_row and yields to reach the home thread
Invoke(c) ==
    /\ calls[c].pc = "idle"
    /\ \E primary_key \in PrimaryKey, pkey_was_autogenerated \in BOOLEAN :
       \E new_value \in NewValueFor(primary_key) :
         calls' = [calls EXCEPT ![c] =
                     Switching(primary_key, pkey_was_autogenerated, new_value)]
    /\ race' = RaceOf(database_sl_view, calls')
    /\ UNCHANGED database_sl_view
    /\ UNCHANGED <<peers, reader, backend>>

\* lines 126-248 without a yield: the snapshot, the checks, and either the return,
\* the join and the return, or the call of db_drop_uuid
WriteRow(c) ==
    /\ calls[c].pc = "switch"
    /\ LET call == calls[c]
           o == WriteRowBody(database_sl_view, call.primary_key,
                             call.pkey_was_autogenerated, call.new_value)
       IN  /\ \A u \in Uuid : o.md[u].ver <= MaxVersion
           /\ \/ /\ o.next = "return"
                 /\ calls' = [calls EXCEPT ![c] =
                                [Done(call, o.database_id, o.existed_before, o.res)
                                    EXCEPT !.old_db_name = o.old_db_name]]
                 /\ UNCHANGED <<database_sl_view, backend>>
              \/ /\ o.next = "join"
                 /\ database_sl_view' = JoinIntoView(database_sl_view, o.md)
                 /\ backend' = Notified(backend)
                 /\ calls' = [calls EXCEPT ![c] =
                                [Done(Joined(call, backend), o.database_id,
                                      o.existed_before, o.res)
                                    EXCEPT !.old_db_name = o.old_db_name]]
              \/ /\ o.next = "drop"
                 /\ calls' = [calls EXCEPT ![c] = Dropping(call, o.md, o.database_id)]
                 /\ UNCHANGED <<database_sl_view, backend>>
    /\ UNCHANGED race
    /\ UNCHANGED <<peers, reader>>

\* lines 236-248: db_drop_uuid succeeds; write_row joins its snapshot and returns
DropSucceeds(c) ==
    /\ calls[c].pc = "drop"
    /\ database_sl_view' =
         JoinIntoView(DbDropped(database_sl_view, calls[c].database_id), calls[c].md)
    /\ backend' = Notified(backend)
    /\ calls' = [calls EXCEPT ![c] =
                   Done(Joined(CameBack(@, database_sl_view), backend),
                        calls[c].database_id, TRUE, Returned("true", NoError))]
    /\ UNCHANGED race
    /\ UNCHANGED <<peers, reader>>

\* lines 236-248: db_drop_uuid returns false with error_out set; write_row does not
\* look at what it returned, joins its snapshot and returns true
DropFails(c) ==
    /\ calls[c].pc = "drop"
    /\ database_sl_view' = JoinIntoView(database_sl_view, calls[c].md)
    /\ backend' = Notified(backend)
    /\ calls' = [calls EXCEPT ![c] =
                   Done(Joined(CameBack(@, database_sl_view), backend),
                        calls[c].database_id, TRUE, Returned("true", "drop failed"))]
    /\ UNCHANGED race
    /\ UNCHANGED <<peers, reader>>

\* line 236: the interruptor is pulsed while db_drop_uuid waits; interrupted_exc_t
\* leaves write_row before line 246
DropInterrupted(c) ==
    /\ calls[c].pc = "drop"
    /\ calls' = [calls EXCEPT ![c] =
                   Done(@, calls[c].database_id, TRUE, Returned("interrupted", NoError))]
    /\ UNCHANGED <<database_sl_view, race>>
    /\ UNCHANGED <<peers, reader, backend>>

\* The caller takes the result; the coroutine can call write_row again.
Return(c) ==
    /\ calls[c].pc = "done"
    /\ calls' = [calls EXCEPT ![c] = Idle]
    /\ race' = 0
    /\ UNCHANGED database_sl_view
    /\ UNCHANGED <<peers, reader, backend>>

\* Metadata of another node of the cluster arrives and is joined into the view.
\* What arrives is what that node holds of one database: the join of a whole map
\* is the join of its entries one after the other.
RemoteJoin ==
    /\ \E remote \in RemoteMetadata :
         database_sl_view' = Join(database_sl_view, remote)
    /\ backend' = Notified(backend)
    /\ UNCHANGED <<calls, race>>
    /\ UNCHANGED <<peers, reader>>

\* lines 74-78, 94-98: the reader calls read_row with a key, or
\* read_all_rows_as_vector, and waits for the home thread
InvokeRead ==
    /\ reader.pc = "idle"
    /\ \/ \E primary_key \in PrimaryKey :
            reader' = Reading("read_row", primary_key)
       \/ reader' = Reading("read_all_rows_as_vector", BadUuidStr)
    /\ UNCHANGED <<database_sl_view, calls, race, peers, backend>>

\* lines 99-115 without a yield: the snapshot, the search, row_out, and `true`
ReadRow ==
    /\ reader.pc = "switch" /\ reader.op = "read_row"
    /\ reader' = [reader EXCEPT !.pc = "done",
                                !.row_out = read_row(database_sl_view,
                                                     reader.primary_key),
                                !.ret = "true"]
    /\ UNCHANGED <<database_sl_view, calls, race, peers, backend>>

\* lines 79-91 without a yield: rows_out is cleared and filled from the snapshot,
\* and `true` is returned
ReadAllRowsAsVector ==
    /\ reader.pc = "switch" /\ reader.op = "read_all_rows_as_vector"
    /\ reader' = [reader EXCEPT !.pc = "done",
                                !.rows_out = read_all_rows_as_vector(database_sl_view),
                                !.ret = "true"]
    /\ UNCHANGED <<database_sl_view, calls, race, peers, backend>>

\* The caller takes what was read; the reader can read again.
ReadReturn ==
    /\ reader.pc = "done"
    /\ reader' = NoRead
    /\ UNCHANGED <<database_sl_view, calls, race, peers, backend>>

\* The steps of one coroutine through write_row.
WriteRowStep(c) ==
    \/ Invoke(c)
    \/ WriteRow(c)
    \/ DropSucceeds(c)
    \/ DropFails(c)
    \/ DropInterrupted(c)
    \/ Return(c)

NextLocal == \E c \in Call : WriteRowStep(c)

\* In the cluster one coroutine writes at this node.  Whatever another write_row
\* of this node does to the view (a creation, a rename, a tombstone, the join of an
\* older snapshot), joins of metadata from other nodes do as well.
ClusterCall == {"c1"}

Next ==
    \/ \E c \in ClusterCall : WriteRowStep(c)
    \/ RemoteJoin

\* lines 66-67: the destructor's body runs begin_changefeed_destruction(); the
\* members, `subs` among them, are still alive
Destructor ==
    /\ backend.pc = "alive"
    /\ backend' = [backend EXCEPT !.pc = "body", !.begun_destruction = TRUE]
    /\ UNCHANGED <<database_sl_view, calls, race, peers, reader>>

\* line 68: after the body the members are destroyed; `subs` gives up its
\* subscription
DestroyMembers ==
    /\ backend.pc = "body"
    /\ backend' = [backend EXCEPT !.pc = "destroyed", !.subs = FALSE]
    /\ UNCHANGED <<database_sl_view, calls, race, peers, reader>>

\* The backend is destroyed while metadata of other nodes arrives.
NextTeardown ==
    \/ Destructor
    \/ DestroyMembers
    \/ RemoteJoin

\* The reads of the backend while metadata of other nodes arrives.
NextRead ==
    \/ InvokeRead
    \/ ReadRow
    \/ ReadAllRowsAsVector
    \/ ReadReturn
    \/ RemoteJoin

\* Two nodes hold any metadata and send it to each other; each joins what it
\* receives into what it holds.
InitMerge ==
    /\ database_sl_view = EmptyMetadata
    /\ calls = [c \in Call |-> Idle]
    /\ race = 0
    /\ peer_a \in Metadata
    /\ peer_b \in Metadata
    /\ reader = NoRead
    /\ backend = Constructed

JoinAtA ==
    /\ peer_a' = Join(peer_a, peer_b)
    /\ UNCHANGED <<database_sl_view, calls, race, peer_b, reader, backend>>

JoinAtB ==
    /\ peer_b' = Join(peer_b, peer_a)
    /\ UNCHANGED <<database_sl_view, calls, race, peer_a, reader, backend>>

NextMerge == JoinAtA \/ JoinAtB

\* The backend in a cluster: a coroutine calls write_row while metadata of other
\* nodes arrives.
Spec == Init /\ [][Next]_vars

\* The backend alone, two coroutines calling write_row: no metadata arrives from
\* other nodes.
SpecLocal == Init /\ [][NextLocal]_vars

\* The join of the metadata of two nodes.
SpecMerge == InitMerge /\ [][NextMerge]_vars

\* The backend read by one coroutine in a cluster.
SpecRead == Init /\ [][NextRead]_vars

\* The destruction of the backend in a cluster.
SpecTeardown == Init /\ [][NextTeardown]_vars

(***************************************************************************)
(* Steps of write_row, for the properties below.                           *)
(***************************************************************************)
\* Coroutine c runs write_row from its snapshot on (lines 126-248).
RunsWriteRow(c) == calls[c].pc = "switch" /\ calls'[c].pc # "switch"

\* Coroutine c comes back from db_drop_uuid and leaves write_row.
LeavesDrop(c) == calls[c].pc = "drop" /\ calls'[c].pc = "done"

\* The new value of coroutine c's write_row is a row of the right shape.
HasWellFormedRow(call) ==
    /\ call.new_value # NoDatum
    /\ \A r \in call.new_value : convert_db_config_and_name_from_datum(r).ok

\* The name in the row of a call that has a well-formed row.
RowName(call) ==
    convert_db_config_and_name_from_datum(CHOOSE r \in call.new_value : TRUE).db_name

\* The UUID in the row of a call that has a well-formed row.
RowId(call) ==
    convert_db_config_and_name_from_datum(CHOOSE r \in call.new_value : TRUE).id

\* The UUID a call's primary key stands for (lines 129-135).
KeyId(call) ==
    IF convert_uuid_from_datum(call.primary_key).ok
    THEN convert_uuid_from_datum(call.primary_key).id
    ELSE nil_uuid

(***************************************************************************)
(* C1.  Tombstones never resurrect: whatever write_row calls run at this   *)
(* node and whatever metadata of other nodes is joined, a database that is *)
(* deleted in the view is still deleted in the view after the next step.   *)
(***************************************************************************)
TombstonesNeverResurrect ==
    [][\A u \in Uuid :
          is_deleted(database_sl_view[u]) => is_deleted(database_sl_view'[u])]_vars

\* A delete went into db_drop_uuid with the database present in its snapshot; the
\* tombstone of the database arrived from another node; db_drop_uuid failed and
\* write_row joined its snapshot and returned.  The database is deleted in the
\* view.
TombstoneMetWritesAndJoins ==
    \E c \in Call :
        /\ calls[c].pc = "done"
        /\ calls[c].new_value = NoDatum
        /\ calls[c].existed_before
        /\ calls[c].stale
        /\ calls[c].res = Returned("true", "drop failed")
        /\ is_deleted(database_sl_view[calls[c].database_id])

(***************************************************************************)
(* C2.  Name uniqueness.  As claimed: in every reachable state of the      *)
(* view, also after metadata of other nodes has been joined, no two        *)
(* databases that are present carry the same name.                         *)
(***************************************************************************)
NamesPairwiseDistinct(md) ==
    \A u, v \in Uuid :
        (u # v /\ md[u].st = "present" /\ md[v].st = "present")
            => md[u].name # md[v].name

NamesUniqueAcrossMerges == NamesPairwiseDistinct(database_sl_view)

\* C2 as amended.  No step of a write_row (a creation, a rename, a delete and its
\* return from db_drop_uuid, whatever has been joined into the view while it ran)
\* takes a view whose names are pairwise distinct to one where two present
\* databases share a name; only the join of metadata from another node does.
WriteRowKeepsNamesUnique ==
    [][(NamesPairwiseDistinct(database_sl_view) /\ calls' # calls)
          => NamesPairwiseDistinct(database_sl_view')]_vars

\* Two databases are present under distinct names and a write_row that would have
\* given one of them the name of the other has been refused.
RenameToTakenNameRefused ==
    \E c \in Call :
        /\ calls[c].pc = "done"
        /\ calls[c].res = Returned("false", "rename: name already exists")
        /\ NamesPairwiseDistinct(database_sl_view)
        /\ \A u \in Uuid : database_sl_view[u].st = "present"
        /\ \E u \in Uuid : /\ u # calls[c].database_id
                           /\ database_sl_view[u].name = RowName(calls[c])

(***************************************************************************)
(* C3.  Uniqueness race.  Two write_row calls are pending at the backend,  *)
(* both creations with the auto-generated flag, of distinct unused UUIDs,  *)
(* under the same name, which is not reserved and which no present         *)
(* database carries (race is that name).  Whatever the order in which the  *)
(* two coroutines get the home thread, once both have returned one has     *)
(* returned true and the other has returned false with the error of a      *)
(* creation under a name that exists.                                      *)
(***************************************************************************)
RaceHasOneWinner ==
    (race # 0 /\ \A c \in Call : calls[c].pc = "done")
        => \E c, d \in Call :
              /\ c # d
              /\ calls[c].res = Returned("true", NoError)
              /\ calls[d].res = Returned("false", "create: name already exists")

\* Both racing creations have returned, and the database of the winner is present
\* under the name.
RaceDecided ==
    /\ race # 0
    /\ \A c \in Call : calls[c].pc = "done"
    /\ \E c \in Call : /\ calls[c].res.ret = "true"
                       /\ database_sl_view[calls[c].database_id] = Present(race, 1)

(***************************************************************************)
(* C4.  A delete whose db_drop_uuid fails or is interrupted does not       *)
(* return success: write_row returns false with the error of db_drop_uuid, *)
(* or is left by the interruption.                                         *)
(***************************************************************************)
FailedDropIsNotSuccess ==
    [][\A c \in Call :
          (DropFails(c) \/ DropInterrupted(c)) => calls'[c].res.ret # "true"]_vars

(***************************************************************************)
(* C5.  Partial failure of the drop.  When db_drop_uuid fails or is        *)
(* interrupted, the return of write_row leaves the entry of the database   *)
(* in the view as it was, so this write puts no tombstone there; and a     *)
(* database that was present when write_row returned is still read by      *)
(* read_row, with its name.                                                *)
(***************************************************************************)
FailedDropLeavesRecord ==
    [][\A c \in Call :
          (DropFails(c) \/ DropInterrupted(c)) =>
              LET id == calls[c].database_id
              IN  /\ database_sl_view'[id] = database_sl_view[id]
                  /\ database_sl_view[id].st = "present" =>
                       read_row(database_sl_view', calls[c].primary_key) =
                         {convert_db_config_and_name_to_datum(
                              database_sl_view[id].name, id)}]_vars

\* A delete has come back from a db_drop_uuid that failed or was interrupted, and
\* read_row still returns the row of the database.
RecordReadAfterFailedDrop ==
    \E c \in Call :
        /\ calls[c].pc = "done"
        /\ calls[c].new_value = NoDatum
        /\ calls[c].existed_before
        /\ \/ calls[c].res.err = "drop failed"
           \/ calls[c].res.ret = "interrupted"
        /\ database_sl_view[calls[c].database_id].st = "present"
        /\ read_row(database_sl_view, calls[c].primary_key) # NoDatum

(***************************************************************************)
(* C6.  The join of the metadata is a semilattice join: for the metadata   *)
(* A and B of two nodes and every metadata C, also where a database has    *)
(* names of equal version and different value or is missing on one side,   *)
(* Join(A,A) = A, Join(A,B) = Join(B,A) and                                *)
(* Join(A,Join(B,C)) = Join(Join(A,B),C); so the two nodes hold the same   *)
(* metadata once each has joined the other's, whoever sends first and      *)
(* however often.                                                          *)
(***************************************************************************)
JoinIsSemilattice ==
    /\ Join(peer_a, peer_a) = peer_a
    /\ Join(peer_a, peer_b) = Join(peer_b, peer_a)
    /\ \A m \in Metadata :
          Join(peer_a, Join(peer_b, m)) = Join(Join(peer_a, peer_b), m)
    /\ LET b1 == Join(peer_b, peer_a)
           a1 == Join(peer_a, b1)
           a2 == Join(peer_a, peer_b)
           b2 == Join(peer_b, a2)
       IN  /\ a1 = b1 /\ a2 = b2 /\ a1 = a2
           /\ Join(a1, peer_b) = a1 /\ Join(b2, peer_a) = b2

\* Node A has joined the metadata of node B, which held another name of the same
\* version for one database and lacked the other database.
JoinedConflictingNames ==
    \E u, v \in Uuid :
        /\ u # v
        /\ peer_b[u].st = "present" /\ peer_a[u].st = "present"
        /\ peer_b[u].ver = peer_a[u].ver
        /\ peer_b[u].name < peer_a[u].name
        /\ peer_b[v].st = "absent" /\ peer_a[v].st # "absent"
        /\ peer_a = Join(peer_a, peer_b)
        /\ peer_b # Join(peer_b, peer_a)

(***************************************************************************)
(* C7.  The reserved name is never assigned.  A write_row whose row names  *)
(* the database `rethinkdb` never returns true and leaves the view as it   *)
(* was: a creation (auto-generated key, unused UUID) returns false with    *)
(* the error of a creation, a write to a present database (which has       *)
(* another name) returns false with the error of a rename, whatever else   *)
(* the view holds.  After no step is a database present under the          *)
(* reserved name.                                                          *)
(***************************************************************************)
ReservedNameNeverAssigned ==
    [][/\ \A c \in Call :
            (/\ RunsWriteRow(c)
             /\ HasWellFormedRow(calls'[c])
             /\ RowId(calls'[c]) = KeyId(calls'[c])
             /\ RowName(calls'[c]) = guarantee_valid_rethinkdb)
            => LET id == KeyId(calls'[c])
                   existed == search_metadata_by_uuid(database_sl_view, id)
                   res == calls'[c].res
               IN  /\ calls'[c].pc = "done"
                   /\ res.ret # "true"
                   /\ database_sl_view' = database_sl_view
                   /\ (~existed /\ calls'[c].pkey_was_autogenerated
                         /\ Find(database_sl_view, id) = Absent)
                        => res = Returned("false", "create: rethinkdb already exists")
                   /\ (existed /\ ~calls'[c].pkey_was_autogenerated)
                        => res = Returned("false", "rename: rethinkdb already exists")
       /\ \A u \in Uuid :
            database_sl_view'[u].st = "present"
                => database_sl_view'[u].name # guarantee_valid_rethinkdb]_vars

\* A write_row has been refused the rename of a present database to `rethinkdb`;
\* the database is present under its own name.
ReservedNameRefused ==
    \E c \in Call :
        /\ calls[c].pc = "done"
        /\ calls[c].res = Returned("false", "rename: rethinkdb already exists")
        /\ calls[c].existed_before
        /\ RowName(calls[c]) = guarantee_valid_rethinkdb
        /\ database_sl_view[calls[c].database_id].st = "present"
        /\ database_sl_view[calls[c].database_id].name # guarantee_valid_rethinkdb

(***************************************************************************)
(* C8.  A delete whose db_drop_uuid succeeds returns true and leaves the   *)
(* database deleted in the view; read_row of a database that is deleted in *)
(* the view returns no row, and read_all_rows_as_vector has no row of it,  *)
(* after every later step.                                                 *)
(***************************************************************************)
NotRead(view, u) ==
    /\ read_row(view, convert_uuid_to_datum(u)) = NoDatum
    /\ \A i \in DOMAIN read_all_rows_as_vector(view) :
          read_all_rows_as_vector(view)[i]["id"] # convert_uuid_to_datum(u)

StaleSnapshotLosesNothing ==
    [][\A c \in Call :
          /\ DropFails(c) => database_sl_view' = database_sl_view
          /\ DropSucceeds(c) =>
               database_sl_view' =
                 DbDropped(database_sl_view, calls[c].database_id)]_vars

\* A write_row has joined a snapshot that the view had moved on from: another
\* database has appeared and the database of the delete has since been renamed.
StaleSnapshotJoined ==
    \E c \in Call :
        /\ calls[c].pc = "done"
        /\ calls[c].stale
        /\ calls[c].res = Returned("true", "drop failed")
        /\ \A u \in Uuid : database_sl_view[u].st = "present"
        /\ database_sl_view[calls[c].database_id].ver > 1

(***************************************************************************)
(* C10.  Creation requires the auto-generated flag.  A write_row with a    *)
(* row of the right shape for its primary key and without the flag, for a  *)
(* UUID that is not present (unused or deleted), returns false with the    *)
(* error that an auto-generated primary key must be used; it is no failed  *)
(* guarantee, and the view is as it was.                                   *)
(***************************************************************************)
CreationNeedsAutogeneratedKey ==
    [][\A c \in Call :
          (/\ RunsWriteRow(c)
           /\ HasWellFormedRow(calls'[c])
           /\ RowId(calls'[c]) = KeyId(calls'[c])
           /\ ~calls'[c].pkey_was_autogenerated
           /\ ~search_metadata_by_uuid(database_sl_view, KeyId(calls'[c])))
          => /\ calls'[c].pc = "done"
             /\ calls'[c].res =
                  Returned("false", "must use an auto-generated primary key")
             /\ database_sl_view' = database_sl_view]_vars

\* The error has been returned to a write_row without the flag whose row is of
\* the right shape, for a database that is deleted in the view.
AutogeneratedKeyDemanded ==
    \E c \in Call :
        /\ calls[c].pc = "done"
        /\ ~calls[c].pkey_was_autogenerated
        /\ HasWellFormedRow(calls[c])
        /\ calls[c].res = Returned("false", "must use an auto-generated primary key")
        /\ database_sl_view[calls[c].database_id] = Deleted

(***************************************************************************)
(* C11.  Idempotent delete.  A write_row without a new value, with or      *)
(* without the auto-generated flag, whose primary key is no UUID or is the *)
(* UUID of a database that is unused or deleted in the view, returns true  *)
(* with no error, does not call db_drop_uuid and leaves the view as it     *)
(* was; the same call on the view it leaves has the same outcome.          *)
(***************************************************************************)
\* The primary key names no database that is present in the view.
NamesNoPresent(view, primary_key) ==
    \/ ~convert_uuid_from_datum(primary_key).ok
    \/ view[convert_uuid_from_datum(primary_key).id].st # "present"

DeleteOfNoRowIsNoOp ==
    [][\A c \in Call :
          (/\ RunsWriteRow(c)
           /\ calls'[c].new_value = NoDatum
           /\ NamesNoPresent(database_sl_view, calls'[c].primary_key))
          => /\ calls'[c].pc = "done"
             /\ calls'[c].res = Returned("true", NoError)
             /\ database_sl_view' = database_sl_view
             /\ LET again == WriteRowBody(database_sl_view', calls'[c].primary_key,
                                          calls'[c].pkey_was_autogenerated, NoDatum)
                IN  /\ again.next = "join"
                    /\ again.res = calls'[c].res
                    /\ JoinIntoView(database_sl_view', again.md) = database_sl_view']_vars

\* A delete of a database that is deleted in the view has returned true, and the
\* other database is present.
DeletedTombstonedAgain ==
    \E c \in Call :
        /\ calls[c].pc = "done"
        /\ calls[c].new_value = NoDatum
        /\ ~calls[c].existed_before
        /\ calls[c].res = Returned("true", NoError)
        /\ calls[c].database_id \in Uuid
        /\ database_sl_view[calls[c].database_id] = Deleted
        /\ \E u \in Uuid : database_sl_view[u].st = "present"

(***************************************************************************)
(* C12.  No-op rename.  A write_row without the auto-generated flag whose  *)
(* row carries the key of a database that is present and the name that     *)
(* database has returns true with no error, also when another database     *)
(* carries the same name; afterwards the database is present under the     *)
(* same UUID and name and read_row returns the row that was written.  A    *)
(* database that carried the name `rethinkdb` would be written under that  *)
(* name as well: neither name check is made.                               *)
(***************************************************************************)
WriteOfOwnNameSucceeds ==
    [][/\ \A c \in Call :
            (/\ RunsWriteRow(c)
             /\ HasWellFormedRow(calls'[c])
             /\ RowId(calls'[c]) = KeyId(calls'[c])
             /\ ~calls'[c].pkey_was_autogenerated
             /\ search_metadata_by_uuid(database_sl_view, KeyId(calls'[c]))
             /\ RowName(calls'[c]) = database_sl_view[KeyId(calls'[c])].name)
            => LET id == KeyId(calls'[c])
               IN  /\ calls'[c].pc = "done"
                   /\ calls'[c].res = Returned("true", NoError)
                   /\ database_sl_view'[id].st = "present"
                   /\ database_sl_view'[id].name = database_sl_view[id].name
                   /\ read_row(database_sl_view', calls'[c].primary_key)
                        = calls'[c].new_value
       /\ \A u \in Uuid, n \in Name :
            LET md == [database_sl_view EXCEPT ![u] = Present(n, 1)]
                o == WriteRowBody(md, convert_uuid_to_datum(u), FALSE,
                                  {convert_db_config_and_name_to_datum(n, u)})
            IN  /\ o.next = "join"
                /\ o.res = Returned("true", NoError)
                /\ o.md[u].st = "present" /\ o.md[u].name = n]_vars

\* A write_row has written a present database under the name it had, while the
\* other database is present under that name too.
OwnNameWritten ==
    \E c \in Call :
        /\ calls[c].pc = "done"
        /\ ~calls[c].pkey_was_autogenerated
        /\ HasWellFormedRow(calls[c])
        /\ calls[c].existed_before
        /\ calls[c].old_db_name = RowName(calls[c])
        /\ calls[c].res = Returned("true", NoError)
        /\ \A u \in Uuid : /\ database_sl_view[u].st = "present"
                           /\ database_sl_view[u].name = RowName(calls[c])

(***************************************************************************)
(* C13.  read_row returns true whatever the key and the view.  row_out is  *)
(* the row {id, name} of the database when the primary key is the text of  *)
(* a UUID whose entry in the view at the read is present, with that key    *)
(* and the name of the entry; it is no row when the entry is deleted, when *)
(* the view has no entry for the UUID, and when the key is no UUID.        *)
(***************************************************************************)
\* The row of the database the key names, if the view has it as present.
RowOfPresent(view, primary_key) ==
    {[id |-> primary_key, name |-> NameStr[view[u].name]] :
        u \in {v \in Uuid : UuidStr[v] = primary_key /\ view[v].st = "present"}}

ReadRowGivesPresentRow ==
    [][ReadRow =>
         /\ reader'.ret = "true"
         /\ reader'.row_out = RowOfPresent(database_sl_view, reader.primary_key)
         /\ Cardinality(reader'.row_out) <= 1
         /\ (reader'.row_out = NoDatum) <=>
              (\/ reader.primary_key = BadUuidStr
               \/ \E u \in Uuid : /\ UuidStr[u] = reader.primary_key
                                  /\ database_sl_view[u] \in {Absent, Deleted})]_vars

\* read_row has given the row of a database that is present while the other
\* database is deleted.
RowOfPresentRead ==
    /\ reader.pc = "done" /\ reader.op = "read_row"
    /\ reader.ret = "true"
    /\ reader.row_out # NoDatum
    /\ reader.row_out = RowOfPresent(database_sl_view, reader.primary_key)
    /\ \E u \in Uuid : /\ UuidStr[u] # reader.primary_key
                       /\ database_sl_view[u] = Deleted

(***************************************************************************)
(* C14.  read_all_rows_as_vector returns true, and rows_out holds, for the *)
(* view at the read, exactly one row for every database that is present,   *)
(* with its UUID and the name it has, and no row for a database that is    *)
(* deleted or unused; a key has a row in rows_out exactly when read_row of *)
(* that key on the same view gives a row, and then it is that row.         *)
(***************************************************************************)
\* The positions of rows_out that hold a row of the key.
RowsOfKey(rows_out, primary_key) ==
    {i \in DOMAIN rows_out : rows_out[i]["id"] = primary_key}

ReadAllRowsGivesPresentRows ==
    [][ReadAllRowsAsVector =>
         LET view == database_sl_view
             rows_out == reader'.rows_out
         IN  /\ reader'.ret = "true"
             /\ Len(rows_out) = Cardinality({u \in Uuid : view[u].st = "present"})
             /\ \A u \in Uuid :
                  LET at == RowsOfKey(rows_out, UuidStr[u])
                  IN  IF view[u].st = "present"
                      THEN /\ Cardinality(at) = 1
                           /\ \A i \in at : rows_out[i]["name"] = NameStr[view[u].name]
                      ELSE at = {}
             /\ \A primary_key \in PrimaryKey :
                  /\ (RowsOfKey(rows_out, primary_key) # {})
                       <=> (read_row(view, primary_key) # NoDatum)
                  /\ \A i \in RowsOfKey(rows_out, primary_key) :
                       rows_out[i] \in read_row(view, primary_key)]_vars

\* read_all_rows_as_vector has given the rows of two databases that are present.
AllPresentRowsRead ==
    /\ reader.pc = "done" /\ reader.op = "read_all_rows_as_vector"
    /\ Len(reader.rows_out) = Cardinality(Uuid)
    /\ reader.rows_out = read_all_rows_as_vector(database_sl_view)
    /\ \A u \in Uuid : database_sl_view[u].st = "present"

(***************************************************************************)
(* C15.  Round trip of the row.  For every UUID and every name,            *)
(* convert_db_config_and_name_from_datum of the row that                   *)
(* convert_db_config_and_name_to_datum makes succeeds and gives that UUID  *)
(* and that name; so every row that read_row and read_all_rows_as_vector   *)
(* give converts back to the UUID and the name of its entry in the view.   *)
(* The same row with one more field, whatever its value, is refused.       *)
(***************************************************************************)
\* Fields a row can carry besides `id` and `name`, and the values tried for them.
OtherField == {"extra", "owner"}
OtherValue == {"", "a", "u1"}

\* The row with one more field.
WithField(row, f, v) ==
    [k \in DOMAIN row \cup {f} |-> IF k = f THEN v ELSE row[k]]

\* The row converts back to the entry of UUID u in the view.
ConvertsBackTo(row, view, u) ==
    LET back == convert_db_config_and_name_from_datum(row)
    IN  back.ok /\ back.id = u /\ back.db_name = view[u].name

RowRoundTrips ==
    [][/\ \A u \in Uuid, n \in Name :
            LET row == convert_db_config_and_name_to_datum(n, u)
                back == convert_db_config_and_name_from_datum(row)
            IN  /\ back.ok /\ back.id = u /\ back.db_name = n
                /\ \A f \in OtherField, v \in OtherValue :
                      ~convert_db_config_and_name_from_datum(WithField(row, f, v)).ok
       /\ ReadRow =>
            \A row \in reader'.row_out :
                ConvertsBackTo(row, database_sl_view,
                               convert_uuid_from_datum(reader.primary_key).id)
       /\ ReadAllRowsAsVector =>
            \A i \in DOMAIN reader'.rows_out :
                \E u \in Uuid :
                    /\ database_sl_view[u].st = "present"
                    /\ ConvertsBackTo(reader'.rows_out[i], database_sl_view, u)]_vars

\* read_row has given a row that converts back to the entry of its database,
\* which has been renamed, while the other database is unused.
RowReadConvertsBack ==
    /\ reader.pc = "done" /\ reader.op = "read_row"
    /\ \E row \in reader.row_out, u \in Uuid :
          /\ ConvertsBackTo(row, database_sl_view, u)
          /\ database_sl_view[u].st = "present"
          /\ database_sl_view[u].ver > 1
          /\ \A v \in Uuid \ {u} : database_sl_view[v] = Absent

(***************************************************************************)
(* C16.  Failed guarantees leave the view alone.  A write_row whose row is *)
(* of the right shape and carries another UUID than its primary key stands *)
(* for (nil_uuid when the key is no UUID), or that comes with the          *)
(* auto-generated flag and addresses a database that is present (with a    *)
(* row of its UUID, or with no value), or that comes with the flag and a   *)
(* row of a UUID that is deleted in the view, fails a guarantee: it        *)
(* returns neither true nor false, and the view is as it was.  No          *)
(* write_row that fails a guarantee changes the view.                      *)
(***************************************************************************)
\* The guarantee of line 152, 156, 167 or 231 fails for the call on the view.
FatalCondition(view, call) ==
    LET id == KeyId(call)
        existed == search_metadata_by_uuid(view, id)
    IN  IF call.new_value = NoDatum
        THEN existed /\ call.pkey_was_autogenerated
        ELSE /\ HasWellFormedRow(call)
             /\ \/ RowId(call) # id
                \/ existed /\ call.pkey_was_autogenerated
                \/ /\ ~existed /\ call.pkey_was_autogenerated
                   /\ Find(view, id) = Deleted

FatalIsNeverPersisted ==
    [][\A c \in Call :
          RunsWriteRow(c) =>
              /\ FatalCondition(database_sl_view, calls'[c])
                   => /\ calls'[c].pc = "done"
                      /\ calls'[c].res = Returned("fatal", NoError)
              /\ calls'[c].res.ret = "fatal"
                   => /\ FatalCondition(database_sl_view, calls'[c])
                      /\ database_sl_view' = database_sl_view]_vars

\* A creation with the auto-generated flag has met the tombstone of its UUID and
\* failed the guarantee; the database is still deleted and the other database is
\* present.
GuaranteeFailedOnTombstone ==
    \E c \in Call :
        /\ calls[c].pc = "done"
        /\ calls[c].pkey_was_autogenerated
        /\ HasWellFormedRow(calls[c])
        /\ RowId(calls[c]) = calls[c].database_id
        /\ ~calls[c].existed_before
        /\ calls[c].res = Returned("fatal", NoError)
        /\ database_sl_view[calls[c].database_id] = Deleted
        /\ \E u \in Uuid : database_sl_view[u].st = "present"

(***************************************************************************)
(* C17.  A rename is not reverted by an older copy.  Every step leaves the *)
(* view at or above what it was, so every earlier state of the view is     *)
(* below the view a write_row finds.  A write_row that updates a present   *)
(* database and returns true leaves the name of its row in the view with a *)
(* version greater than the one the view had, and joining into the new     *)
(* view any metadata that is below the view it found (a copy of an earlier *)
(* state, of this node or of one that had seen only such states) changes   *)
(* nothing.                                                                *)
(***************************************************************************)
\* Metadata m holds nothing the view does not hold.
Below(m, view) == Join(view, m) = view

RenameOutlivesOlderCopies ==
    [][/\ Below(database_sl_view, database_sl_view')
       /\ \A c \in Call :
            (/\ RunsWriteRow(c)
             /\ HasWellFormedRow(calls'[c])
             /\ search_metadata_by_uuid(database_sl_view, KeyId(calls'[c]))
             /\ calls'[c].res.ret = "true")
            => LET id == KeyId(calls'[c])
               IN  /\ database_sl_view'[id].st = "present"
                   /\ database_sl_view'[id].name = RowName(calls'[c])
                   /\ database_sl_view'[id].ver > database_sl_view[id].ver
                   /\ \A m \in Metadata :
                        Below(m, database_sl_view)
                            => /\ m[id].st = "present" => m[id].ver < database_sl_view'[id].ver
                               /\ Join(database_sl_view', m) = database_sl_view']_vars

\* A write_row has given a present database another name, and the view holds
\* that name with a version above the first.
RenamedAboveOlderCopies ==
    \E c \in Call :
        /\ calls[c].pc = "done"
        /\ calls[c].existed_before
        /\ HasWellFormedRow(calls[c])
        /\ calls[c].old_db_name # RowName(calls[c])
        /\ calls[c].res = Returned("true", NoError)
        /\ database_sl_view[calls[c].database_id].st = "present"
        /\ database_sl_view[calls[c].database_id].name = RowName(calls[c])
        /\ database_sl_view[calls[c].database_id].ver > 1

(***************************************************************************)
(* C18.  Teardown order.  As claimed: when the destruction of the backend  *)
(* begins (begin_changefeed_destruction runs), `subs` has given up its     *)
(* subscription already, and notify_all never runs on a backend whose      *)
(* destruction has begun.                                                  *)
(***************************************************************************)
SubscriptionReleasedFirst ==
    [][/\ (backend'.begun_destruction /\ ~backend.begun_destruction)
            => ~backend.subs
       /\ ~backend'.notified_in_teardown]_vars

(***************************************************************************)
(* C19.  A refused write of a row changes nothing.  A write_row with a new *)
(* value returns false exactly when the row is of the wrong shape, or      *)
(* creates without the auto-generated flag, or gives a database the        *)
(* reserved name or a name that a present database of the snapshot         *)
(* carries (by creation, or by a change of name); it has then not reached  *)
(* the join: the view, its versions included, is as it was, and notify_all *)
(* has not run for this write.  A write that returns true has joined, and  *)
(* notify_all has run.                                                     *)
(***************************************************************************)
\* write_row refuses the row of the call on the view with a recoverable error.
RefusedCondition(view, call) ==
    LET id == KeyId(call)
        existed == search_metadata_by_uuid(view, id)
        taken == \/ RowName(call) = guarantee_valid_rethinkdb
                 \/ \E u \in Uuid : /\ view[u].st = "present"
                                    /\ view[u].name = RowName(call)
    IN  \/ ~HasWellFormedRow(call)
        \/ /\ HasWellFormedRow(call)
           /\ RowId(call) = id
           /\ \/ ~existed /\ ~call.pkey_was_autogenerated
              \/ /\ ~existed /\ call.pkey_was_autogenerated
                 /\ Find(view, id) = Absent
                 /\ taken
              \/ /\ existed /\ ~call.pkey_was_autogenerated
                 /\ RowName(call) # view[id].name
                 /\ taken

RefusedWriteChangesNothing ==
    [][\A c \in Call :
          (RunsWriteRow(c) /\ calls'[c].new_value # NoDatum) =>
              /\ RefusedCondition(database_sl_view, calls'[c])
                   <=> calls'[c].res.ret = "false"
              /\ calls'[c].res.ret = "false"
                   => /\ calls'[c].pc = "done"
                      /\ calls'[c].res.err # NoError
                      /\ database_sl_view' = database_sl_view
                      /\ ~calls'[c].notified
                      /\ backend' = backend
              /\ calls'[c].res.ret = "true"
                   => calls'[c].pc = "done" /\ calls'[c].notified]_vars

\* A row with a field too many has been refused for a database that is present;
\* notify_all has not run, and the database has its first name and version.
MalformedRowRefused ==
    \E c \in Call :
        /\ calls[c].pc = "done"
        /\ calls[c].new_value # NoDatum
        /\ ~HasWellFormedRow(calls[c])
        /\ calls[c].existed_before
        /\ calls[c].res = Returned("false", "wrong format")
        /\ ~calls[c].notified
        /\ database_sl_view[calls[c].database_id].st = "present"
        /\ database_sl_view[calls[c].database_id].ver = 1

(***************************************************************************)
(* C20.  Frame of a write.  A write_row with a row that returns true       *)
(* changes in the view no entry but the one of the UUID its primary key    *)
(* stands for: a creation finds no entry there and leaves the database     *)
(* present under the name of the row with the first version; an update     *)
(* leaves it present under the name of the row with the next version.  The *)
(* row read under the key afterwards is the row written, with the key as   *)
(* its id.                                                                 *)
(***************************************************************************)
WriteChangesOnlyItsEntry ==
    [][\A c \in Call :
          (/\ RunsWriteRow(c)
           /\ calls'[c].new_value # NoDatum
           /\ calls'[c].res.ret = "true")
          => LET id == KeyId(calls'[c])
                 before == database_sl_view
                 after == database_sl_view'
             IN  /\ id \in Uuid
                 /\ \A u \in Uuid \ {id} : after[u] = before[u]
                 /\ IF search_metadata_by_uuid(before, id)
                    THEN after[id] = Present(RowName(calls'[c]), before[id].ver + 1)
                    ELSE /\ before[id] = Absent
                         /\ after[id] = Present(RowName(calls'[c]), 1)
                 /\ read_row(after, calls'[c].primary_key) = calls'[c].new_value
                 /\ \A row \in read_row(after, calls'[c].primary_key) :
                      row["id"] = calls'[c].primary_key]_vars

\* A creation has returned true and its database is present under the name of
\* the row with the first version, while the other database, renamed before, is
\* present under another name.
CreatedBesideRenamed ==
    \E c \in Call :
        /\ calls[c].pc = "done"
        /\ calls[c].pkey_was_autogenerated
        /\ ~calls[c].existed_before
        /\ HasWellFormedRow(calls[c])
        /\ calls[c].res = Returned("true", NoError)
        /\ database_sl_view[calls[c].database_id] = Present(RowName(calls[c]), 1)
        /\ \E u \in Uuid : /\ database_sl_view[u].st = "present"
                           /\ database_sl_view[u].ver > 1
                           /\ database_sl_view[u].name # RowName(calls[c])

====
